---------------------------- MODULE Spec2Model ----------------------------
(***************************************************************************)
(* AutoPipelineAI: the agent orchestrator (src/src/agents/orchestrator.py) *)
(* with its three agents, the natural-language planner and the structured  *)
(* output parser of the inference client, the code executor, and the       *)
(* cache (src/src/cache/cache_manager.py, src/src/cache/memory_store.py).  *)
(*                                                                         *)
(* Python values are modelled as follows.  A dict is a function whose      *)
(* DOMAIN is the set of its keys (so dict.get has its real meaning), a     *)
(* list is a sequence, a str is a TLA+ string whose characters are given   *)
(* by Chars, Python's None is the string None in every slot that holds     *)
(* strings or data, and an error text (an f-string) is the tuple of its    *)
(* parts, the empty tuple standing for None in the error slot.             *)
(***************************************************************************)
EXTENDS Integers, Sequences, FiniteSets, TLC

VARIABLES
    context,          \* AgentOrchestrator.context (SharedContext)
    df_contents,      \* the contents of the object under context["df"]
    execution_count,  \* BaseAgent.execution_count of each agent
    calls,            \* execute_task calls made on this orchestrator so far
    op,               \* the public operation last entered
    state,            \* where that operation stands
    tasks,            \* the task list given to it
    i,                \* execute_workflow: the loop index (enumerate from 1)
    local,            \* the task-local context given to execute_task
    results,          \* execute_workflow's results list
    trace,            \* one entry per execute_task call of the operation
    context0,         \* SharedContext when the operation was entered
    request,          \* parse_natural_language_workflow: user_request
    answer,           \* ... what the inference server did
    planned,          \* ... the task list it returned
    llm_text,         \* the model answer given to the code executor
    code_text,        \* execute_code: the code it was given
    code_context,     \* ... and the namespace
    code_events,      \* what happened to code: validated, executed
    outcome,          \* what the executor's operation returned
    cache,            \* a CacheManager: memory_cache, cache_dir, cache_metadata
    clock,            \* datetime.now()
    cache_calls,      \* calls made on the CacheManager so far
    cache_ret,        \* the last call on the CacheManager and what it returned
    cache_log,        \* per backend and key: the last set, delete or clear
    store,            \* a MemoryStore: max_history and its two lists
    store_log,        \* every entry given to add_message and log_execution
    cleared           \* clear_context was called and no load has succeeded since

vars == <<cleared, context, df_contents, execution_count, calls, op, state, tasks,
          i, local,
          results, trace, context0, request, answer, planned, llm_text,
          code_text, code_context, code_events, outcome, cache, clock,
          cache_calls, cache_ret, cache_log, store, store_log>>

(***************************************************************************)
(* Bounds of the model.                                                    *)
(***************************************************************************)
MaxTasks == 3
MaxCalls == 3
MaxSteps == 2
MaxBlocks == 2
MaxClock == 3
MaxCacheCalls == 3
DefaultTTL == 2
MaxHistory == 2
MaxAdds == 4

(***************************************************************************)
(* Python values.                                                          *)
(***************************************************************************)
None == "None"
ErrNone == <<>>
EmptyDict == [k \in {} |-> None]

Get(d, key, default) == IF key \in DOMAIN d THEN d[key] ELSE default

IsStr(v) == v # None

Chars(s) ==
    CASE s = "" -> <<>>
      [] s = "Load sales" -> <<"L", "o", "a", "d", " ", "s", "a", "l", "e", "s">>
      [] s = "download data" -> <<"d", "o", "w", "n", "l", "o", "a", "d", " ", "d", "a", "t", "a">>
      [] s = "export filtered" -> <<"e", "x", "p", "o", "r", "t", " ", "f", "i", "l", "t", "e", "r", "e", "d">>
      [] s = "export csv" -> <<"e", "x", "p", "o", "r", "t", " ", "c", "s", "v">>
      [] s = "summary report" -> <<"s", "u", "m", "m", "a", "r", "y", " ", "r", "e", "p", "o", "r", "t">>
      [] s = "show totals" -> <<"s", "h", "o", "w", " ", "t", "o", "t", "a", "l", "s">>
      [] s = "plot chart" -> <<"p", "l", "o", "t", " ", "c", "h", "a", "r", "t">>
      [] s = "clean report" -> <<"c", "l", "e", "a", "n", " ", "r", "e", "p", "o", "r", "t">>
      [] s = "etl" -> <<"e", "t", "l">>
      [] s = "ETL" -> <<"E", "T", "L">>
      [] s = "query" -> <<"q", "u", "e", "r", "y">>
      [] s = "profile" -> <<"p", "r", "o", "f", "i", "l", "e">>
      [] s = "plot" -> <<"p", "l", "o", "t">>
      [] s = "a.csv" -> <<"a", ".", "c", "s", "v">>
      [] s = "notes.txt" -> <<"n", "o", "t", "e", "s", ".", "t", "x", "t">>
      [] s = "out.csv" -> <<"o", "u", "t", ".", "c", "s", "v">>
      [] s = "out" -> <<"o", "u", "t">>
      [] s = ".csv" -> <<".", "c", "s", "v">>
      [] s = ".xlsx" -> <<".", "x", "l", "s", "x">>
      [] s = ".xls" -> <<".", "x", "l", "s">>
      [] s = ".parquet" -> <<".", "p", "a", "r", "q", "u", "e", "t">>
      [] s = "load" -> <<"l", "o", "a", "d">>
      [] s = "read" -> <<"r", "e", "a", "d">>
      [] s = "import" -> <<"i", "m", "p", "o", "r", "t">>
      [] s = "filter" -> <<"f", "i", "l", "t", "e", "r">>
      [] s = "select" -> <<"s", "e", "l", "e", "c", "t">>
      [] s = "where" -> <<"w", "h", "e", "r", "e">>
      [] s = "save" -> <<"s", "a", "v", "e">>
      [] s = "export" -> <<"e", "x", "p", "o", "r", "t">>
      [] s = "write" -> <<"w", "r", "i", "t", "e">>
      [] s = "report" -> <<"r", "e", "p", "o", "r", "t">>
      [] s = "summary" -> <<"s", "u", "m", "m", "a", "r", "y">>
      [] s = "find" -> <<"f", "i", "n", "d">>
      [] s = "show" -> <<"s", "h", "o", "w">>
      [] s = "get" -> <<"g", "e", "t">>
      [] s = "calculate" -> <<"c", "a", "l", "c", "u", "l", "a", "t", "e">>
      [] s = "extract" -> <<"e", "x", "t", "r", "a", "c", "t">>
      [] s = "transform" -> <<"t", "r", "a", "n", "s", "f", "o", "r", "m">>
      [] s = "clean" -> <<"c", "l", "e", "a", "n">>
      [] s = "question" -> <<"q", "u", "e", "s", "t", "i", "o", "n">>
      [] s = "analyze" -> <<"a", "n", "a", "l", "y", "z", "e">>
      [] s = "what" -> <<"w", "h", "a", "t">>
      [] s = "how" -> <<"h", "o", "w">>
      [] s = "quality" -> <<"q", "u", "a", "l", "i", "t", "y">>
      [] s = "statistics" -> <<"s", "t", "a", "t", "i", "s", "t", "i", "c", "s">>
      [] s = "describe" -> <<"d", "e", "s", "c", "r", "i", "b", "e">>

\* str.lower(), character by character
LowerChar(c) ==
    CASE c = "L" -> "l"
      [] c = "E" -> "e"
      [] c = "T" -> "t"
      [] OTHER -> c

Lower(cs) == [n \in 1..Len(cs) |-> LowerChar(cs[n])]

\* Python's "keyword in text" on character sequences
Contains(text, keyword) ==
    \E n \in 0..(Len(text) - Len(keyword)) :
        \A m \in 1..Len(keyword) : text[n + m] = keyword[m]

\* str.endswith
EndsWith(text, suffix) ==
    /\ Len(suffix) <= Len(text)
    /\ \A m \in 1..Len(suffix) :
           text[Len(text) - Len(suffix) + m] = suffix[m]

\* any(keyword in text for keyword in keywords)
AnyKeyword(text, keywords) ==
    \E n \in 1..Len(keywords) : Contains(text, Chars(keywords[n]))

(***************************************************************************)
(* The agents' can_handle predicates and the router.                       *)
(***************************************************************************)
ETL == "ETL Agent"
QUERY == "Query Agent"
PROFILING == "Profiling Agent"

agents_query_first == <<QUERY, ETL, PROFILING>>

\* AgentOrchestrator.agents, in routing order
agents == <<ETL, QUERY, PROFILING>>

Raise == "<raise>"

etl_keywords ==
    <<"load", "extract", "transform", "clean", "filter", "save", "export">>
query_keywords ==
    <<"query", "question", "analyze", "what", "how", "show", "find", "get">>
profiling_keywords ==
    <<"profile", "quality", "summary", "statistics", "report", "describe">>

\* task.get("type", "").lower() and task.get("description", "").lower()
\* raise AttributeError when the value is present and None
can_handle_raises(task) ==
    \/ ~IsStr(Get(task, "type", ""))
    \/ ~IsStr(Get(task, "description", ""))

ETLAgent_can_handle(task) ==
    LET task_type == Lower(Chars(Get(task, "type", "")))
        description == Lower(Chars(Get(task, "description", "")))
    IN  task_type = Chars("etl") \/ AnyKeyword(description, etl_keywords)

QueryAgent_can_handle(task) ==
    LET task_type == Lower(Chars(Get(task, "type", "")))
        description == Lower(Chars(Get(task, "description", "")))
    IN  task_type = Chars("query") \/ AnyKeyword(description, query_keywords)

ProfilingAgent_can_handle(task) ==
    LET task_type == Lower(Chars(Get(task, "type", "")))
        description == Lower(Chars(Get(task, "description", "")))
    IN  task_type = Chars("profile")
        \/ AnyKeyword(description, profiling_keywords)

can_handle(agent, task) ==
    CASE agent = ETL -> ETLAgent_can_handle(task)
      [] agent = QUERY -> QueryAgent_can_handle(task)
      [] agent = PROFILING -> ProfilingAgent_can_handle(task)

\* The first agent of the list whose can_handle is true, None when there is
\* none; the first can_handle call raises on a None type or description.
RECURSIVE first_agent(_, _)
first_agent(n, task) ==
    IF n > Len(agents) THEN None
    ELSE IF can_handle(agents[n], task) THEN agents[n]
    ELSE first_agent(n + 1, task)

route_task(task) ==
    IF can_handle_raises(task) THEN Raise ELSE first_agent(1, task)

(***************************************************************************)
(* The planner: OllamaClient.generate_structured_output and                *)
(* AgentOrchestrator.parse_natural_language_workflow.                      *)
(***************************************************************************)
_infer_task_from_step_case_sensitive(step) ==
    LET step_lower == Chars(step)
    IN  IF AnyKeyword(step_lower, <<"load", "read", "import">>)
        THEN [type |-> "etl", operation |-> "load", description |-> step]
        ELSE IF AnyKeyword(step_lower, <<"filter", "select", "where">>)
        THEN [type |-> "etl", operation |-> "filter", description |-> step]
        ELSE IF AnyKeyword(step_lower, <<"save", "export", "write">>)
        THEN [type |-> "etl", operation |-> "save", description |-> step]
        ELSE IF AnyKeyword(step_lower, <<"profile", "report", "summary">>)
        THEN [type |-> "profile", description |-> step]
        ELSE IF AnyKeyword(step_lower,
                           <<"query", "find", "show", "get", "calculate">>)
        THEN [type |-> "query", description |-> step]
        ELSE [type |-> "query", description |-> step]

\* step.lower() then the keyword groups in the order of the if/elif chain
_infer_task_from_step(step) ==
    LET step_lower == Lower(Chars(step))
    IN  IF AnyKeyword(step_lower, <<"load", "read", "import">>)
        THEN [type |-> "etl", operation |-> "load", description |-> step]
        ELSE IF AnyKeyword(step_lower, <<"filter", "select", "where">>)
        THEN [type |-> "etl", operation |-> "filter", description |-> step]
        ELSE IF AnyKeyword(step_lower, <<"save", "export", "write">>)
        THEN [type |-> "etl", operation |-> "save", description |-> step]
        ELSE IF AnyKeyword(step_lower, <<"profile", "report", "summary">>)
        THEN [type |-> "profile", description |-> step]
        ELSE IF AnyKeyword(step_lower,
                           <<"query", "find", "show", "get", "calculate">>)
        THEN [type |-> "query", description |-> step]
        ELSE [type |-> "query", description |-> step]

\* A JSON document as json.loads returns it: an object is a dict, an array a
\* list whose items are strings or None, anything else is neither.
JsonInvalid == [json |-> "invalid"]
JsonNull == [json |-> "null"]
JsonList(items) == [json |-> "array", items |-> items]
JsonObject(d) == [json |-> "object", value |-> d]

\* The text json.loads is given: the inside of the first ``` fence when the
\* completion has one, the whole completion otherwise (prose around a bare
\* document then makes it invalid).
json_str(completion) ==
    IF completion.fenced THEN completion.body
    ELSE IF completion.prose THEN JsonInvalid
    ELSE completion.body

\* generate_structured_output: raises when generate_completion raises and
\* when json.loads fails (ValueError); returns the parsed document otherwise.
generate_structured_output(ans) ==
    IF ans.raises THEN [raised |-> TRUE, value |-> JsonInvalid]
    ELSE IF json_str(ans.completion) = JsonInvalid
    THEN [raised |-> TRUE, value |-> JsonInvalid]
    ELSE [raised |-> FALSE, value |-> json_str(ans.completion)]

\* The rest of the try block.  response.get raises on a document that is no
\* dict, the for loop on a task_breakdown that is null, step.lower() on a
\* step that is no str; otherwise every step gives one task.
tasks_of_response(response) ==
    IF response.json # "object" THEN [raised |-> TRUE, tasks |-> <<>>]
    ELSE LET task_steps ==
                 Get(response.value, "task_breakdown", JsonList(<<>>))
         IN  IF task_steps.json # "array"
             THEN [raised |-> TRUE, tasks |-> <<>>]
             ELSE IF \E n \in 1..Len(task_steps.items) :
                         ~IsStr(task_steps.items[n])
             THEN [raised |-> TRUE, tasks |-> <<>>]
             ELSE [raised |-> FALSE,
                   tasks |-> [n \in 1..Len(task_steps.items) |->
                                 _infer_task_from_step(task_steps.items[n])]]

fallback_tasks_empty(user_request) == <<>>

\* The except branch.
fallback_tasks(user_request) ==
    << [type |-> "query", description |-> user_request,
        query |-> user_request] >>

parse_natural_language_workflow(user_request, ans) ==
    LET response == generate_structured_output(ans)
    IN  IF response.raised THEN fallback_tasks(user_request)
        ELSE LET body == tasks_of_response(response.value)
             IN  IF body.raised THEN fallback_tasks(user_request)
                 ELSE body.tasks

(***************************************************************************)
(* Model answers and the code they carry.  A model answer is a sequence of *)
(* segments: prose, or a fenced region with its tag and its inner text.    *)
(* Code is a sequence of characters of which the statements below are      *)
(* single ones, so that trimming and running are computed on the text.     *)
(***************************************************************************)
Whitespace == {" ", "\n"}

Prose == [kind |-> "prose"]

Fence(tag, inner) == [kind |-> "fence", tag |-> tag, inner |-> inner]

IsPythonFence(segment) == segment.kind = "fence" /\ segment.tag = "python"

\* str.strip()
RECURSIVE lstrip(_)
lstrip(cs) ==
    IF cs # <<>> /\ Head(cs) \in Whitespace THEN lstrip(Tail(cs)) ELSE cs

RECURSIVE rstrip(_)
rstrip(cs) ==
    IF cs # <<>> /\ cs[Len(cs)] \in Whitespace
    THEN rstrip(SubSeq(cs, 1, Len(cs) - 1))
    ELSE cs

strip_left_only(cs) == lstrip(cs)

strip(cs) == rstrip(lstrip(cs))

\* The statements model-written code is made of.
BindScalar == "result = 2 + 2"
BindFrame == "result = df.head()"
BindOther == "x = 1"
UseUndefined == "result = undefined_variable"
ImportOs == "import os; os.system('ls')"

Statements == {BindScalar, BindFrame, BindOther, UseUndefined, ImportOs}

\* Running code statement by statement in the given namespace with
\* fresh locals: whether it raised, the local result (None when unbound)
\* and whether a statement reached the operating system.
RECURSIVE run(_, _, _)
run(code, namespace, locals) ==
    IF code = <<>> THEN locals
    ELSE LET statement == Head(code)
         IN  IF statement \in Whitespace \/ statement = BindOther
             THEN run(Tail(code), namespace, locals)
             ELSE IF statement = BindScalar
             THEN run(Tail(code), namespace,
                      [locals EXCEPT !.result = "scalar"])
             ELSE IF statement = BindFrame /\ "df" \in DOMAIN namespace
             THEN run(Tail(code), namespace,
                      [locals EXCEPT !.result = namespace["df"]])
             ELSE IF statement = ImportOs
             THEN run(Tail(code), namespace,
                      [locals EXCEPT !.escaped = TRUE])
             ELSE [locals EXCEPT !.raised = TRUE]

exec_requires_result(code, namespace) ==
    LET ran == run(code, namespace,
                   [raised |-> FALSE, result |-> None, escaped |-> FALSE])
    IN  IF ran.result = None THEN [ran EXCEPT !.raised = TRUE] ELSE ran

exec(code, namespace) ==
    run(code, namespace,
        [raised |-> FALSE, result |-> None, escaped |-> FALSE])

\* SafeCodeExecutor.extract_code_blocks
RECURSIVE extract_code_blocks(_)
extract_code_blocks(text) ==
    IF text = <<>> THEN <<>>
    ELSE IF IsPythonFence(Head(text))
    THEN <<strip(Head(text).inner)>> \o extract_code_blocks(Tail(text))
    ELSE extract_code_blocks(Tail(text))

\* SafeCodeExecutor.check_code_safety: (is_safe, error)
check_code_safety(code) ==
    IF \E n \in 1..Len(code) : code[n] = ImportOs
    THEN [is_safe |-> FALSE, error |-> <<"Unsafe code: ", ImportOs>>]
    ELSE [is_safe |-> TRUE, error |-> ErrNone]

execute_code_keeps_partial_result(code, namespace) ==
    LET ran == exec(code, namespace)
    IN  IF ran.raised
        THEN [success |-> FALSE, result |-> ran.result, output |-> "stdout",
              error |-> <<"NameError">>]
        ELSE [success |-> TRUE, result |-> ran.result, output |-> "stdout",
              error |-> ErrNone]

\* SafeCodeExecutor.execute_code: {success, result, output, error}
execute_code(code, namespace) ==
    LET ran == exec(code, namespace)
    IN  IF ran.raised
        THEN [success |-> FALSE, result |-> None, output |-> "stdout",
              error |-> <<"NameError">>]
        ELSE [success |-> TRUE, result |-> ran.result, output |-> "stdout",
              error |-> ErrNone]

\* What happened to code: the validator's verdict on it, or its execution.
Validated(code, verdict) ==
    [kind |-> "validate", code |-> code, is_safe |-> verdict.is_safe]

Executed(code) == [kind |-> "exec", code |-> code]

\* SafeCodeExecutor.execute_from_llm_response: the first extracted block is
\* validated and, when accepted, executed.  no_code_fails is the choice the
\* executor makes on an answer without code: a failed outcome, or a
\* successful one without result.
execute_from_llm_response(llm_response, namespace, no_code_fails) ==
    LET code_blocks == extract_code_blocks(llm_response)
    IN  IF code_blocks = <<>>
        THEN [outcome |->
                  IF no_code_fails
                  THEN [success |-> FALSE, result |-> None, output |-> "",
                        error |-> <<"No code blocks found">>]
                  ELSE [success |-> TRUE, result |-> None, output |-> "",
                        error |-> ErrNone],
              events |-> <<>>]
        ELSE LET code == code_blocks[1]
                 verdict == check_code_safety(code)
             IN  IF ~verdict.is_safe
                 THEN [outcome |-> [success |-> FALSE, result |-> None,
                                    output |-> "", error |-> verdict.error],
                       events |-> <<Validated(code, verdict)>>]
                 ELSE [outcome |-> execute_code(code, namespace),
                       events |-> <<Validated(code, verdict),
                                    Executed(code)>>]

\* main.py, LLM Mode: re.search for the first ```python fence, strip, exec
\* inside try/except, then what the page shows.
llm_mode(full_output, df) ==
    LET match == SelectSeq(full_output, IsPythonFence)
    IN  IF match = <<>>
        THEN [shown |-> "warning: no code block", events |-> <<>>]
        ELSE LET code_str == strip(match[1].inner)
                 local_vars == exec(code_str, [df |-> df])
             IN  [shown |-> IF local_vars.raised THEN "error"
                            ELSE IF local_vars.result # None THEN "dataframe"
                            ELSE "warning: no result",
                  events |-> <<Executed(code_str)>>]

(***************************************************************************)
(* The agents' execute methods.  env is what the collaborators do during   *)
(* the call: ok says that the file read or write, the pandas operation,    *)
(* the inference request or the report rendering completes without         *)
(* raising, frame is the DataFrame a read or a pandas operation yields,    *)
(* completion is the model's answer and no_code_fails the executor's       *)
(* choice on an answer without code.  Each execute returns the result     *)
(* dict, whether log_execution was called, what happened to model-written  *)
(* code and to the report, whether the agent converted in place a column   *)
(* of the object the execution context holds under "df", and whether the   *)
(* data of the result is that same object.                                 *)
(***************************************************************************)
Frames == {"dfA", "dfB"}

\* The model's answers to a query.
NoCode == <<Prose>>
UnsafeAnswer == <<Prose, Fence("python", <<ImportOs, "\n">>)>>
RaisingAnswer == <<Fence("python", <<"\n", UseUndefined>>)>>
UnboundAnswer == <<Fence("python", <<" ", BindOther, " ">>)>>
ScalarAnswer == <<Fence("python", <<"\n", BindScalar, "\n">>)>>
FrameAnswer == <<Fence("python", <<BindFrame>>), Prose>>

Completions ==
    {UnsafeAnswer, RaisingAnswer, UnboundAnswer, ScalarAnswer, FrameAnswer}

\* The frame matters to the ETL agent alone and the completion to the Query
\* agent alone, so these cover every outcome of every agent.
Envs ==
    {[ok |-> FALSE, frame |-> "dfA", completion |-> NoCode,
      no_code_fails |-> TRUE]}
    \cup {[ok |-> TRUE, frame |-> "dfA", completion |-> NoCode,
           no_code_fails |-> b] : b \in BOOLEAN}
    \cup {[ok |-> TRUE, frame |-> "dfB", completion |-> c,
           no_code_fails |-> TRUE] : c \in Completions}

IsFrame(v) == v \in Frames

has_df(ctx) == "df" \in DOMAIN ctx

Failure_without_error(error) ==
    [success |-> FALSE, data |-> None, error |-> ErrNone]

Failure(error) == [success |-> FALSE, data |-> None, error |-> error]

ETLAgent_load_data(file_path, task, env) ==
    IF ~IsStr(file_path)
    THEN Failure(<<"Failed to load data: ", "AttributeError">>)
    ELSE IF \/ EndsWith(Chars(file_path), Chars(".csv"))
            \/ EndsWith(Chars(file_path), Chars(".xlsx"))
            \/ EndsWith(Chars(file_path), Chars(".xls"))
            \/ EndsWith(Chars(file_path), Chars(".parquet"))
    THEN IF env.ok
         THEN [success |-> TRUE, data |-> env.frame, error |-> ErrNone,
               metadata |-> [file |-> file_path]]
         ELSE Failure(<<"Failed to load data: ", "IOError">>)
    ELSE Failure(<<"Unsupported file format: ", file_path>>)

\* The for loop of _transform_data from its n-th step on.  df is the local
\* variable, aliased says that it is still the object of context["df"],
\* converted that a column of that object was assigned in place.
\* drop_nulls, fill_nulls and rename bind df to a new frame; convert_type
\* assigns df[column] in place, and raises KeyError on a column the frame
\* does not have.
RECURSIVE apply_transformations(_, _, _, _, _, _)
apply_transformations(transformations, n, df, aliased, converted, env) ==
    IF n > Len(transformations)
    THEN [raised |-> FALSE, df |-> df, aliased |-> aliased,
          converted |-> converted]
    ELSE LET transform == transformations[n]
             transform_type == Get(transform, "type", None)
             raise == [raised |-> TRUE, df |-> df, aliased |-> aliased,
                       converted |-> converted]
         IN  IF transform_type \in {"drop_nulls", "fill_nulls", "rename"}
             THEN IF IsFrame(df) /\ env.ok
                  THEN apply_transformations(transformations, n + 1,
                                             env.frame, FALSE, converted, env)
                  ELSE raise
             ELSE IF transform_type = "convert_type"
             THEN IF IsFrame(df) /\ Get(transform, "column", None) # "missing"
                  THEN apply_transformations(transformations, n + 1, df,
                                             aliased, converted \/ aliased,
                                             env)
                  ELSE raise
             ELSE apply_transformations(transformations, n + 1, df, aliased,
                                        converted, env)

ETLAgent_transform_data(task, ctx, env) ==
    IF ~has_df(ctx)
    THEN [result |-> Failure(<<"No DataFrame in context">>),
          converted |-> FALSE, same_object |-> FALSE]
    ELSE LET df == ctx["df"]
             transformations == Get(task, "transformations", <<>>)
             done == apply_transformations(transformations, 1, df, TRUE,
                                           FALSE, env)
         IN  IF done.raised
             THEN [result |-> Failure(<<"Transformation failed: ",
                                        "Exception">>),
                   converted |-> done.converted, same_object |-> FALSE]
             ELSE [result |-> [success |-> TRUE, data |-> done.df,
                               error |-> ErrNone],
                   converted |-> done.converted,
                   same_object |-> done.aliased]

ETLAgent_filter_data(task, ctx, env) ==
    IF ~has_df(ctx) THEN Failure(<<"No DataFrame in context">>)
    ELSE LET df == ctx["df"]
         IN  IF "filters" \notin DOMAIN task
             THEN \* nothing to apply: df itself, and len(df) for the metadata
                  IF df = "scalar"
                  THEN Failure(<<"Filtering failed: ", "TypeError">>)
                  ELSE [success |-> TRUE, data |-> df, error |-> ErrNone,
                        metadata |-> [filtered_rows |-> "len(df)"]]
             ELSE IF IsFrame(df) /\ env.ok
             THEN [success |-> TRUE, data |-> env.frame, error |-> ErrNone,
                   metadata |-> [filtered_rows |-> "len(df)"]]
             ELSE Failure(<<"Filtering failed: ", "Exception">>)

ETLAgent_save_data(task, ctx, env) ==
    IF ~has_df(ctx) THEN Failure(<<"No DataFrame in context">>)
    ELSE LET df == ctx["df"]
             output_path == Get(task, "output_path", None)
         IN  IF IsStr(output_path) /\ IsFrame(df) /\ env.ok
             THEN [success |-> TRUE, data |-> None, error |-> ErrNone,
                   metadata |-> [output_path |-> output_path]]
             ELSE Failure(<<"Save failed: ", "Exception">>)

ETLAgent_execute(task, ctx, env) ==
    LET operation == Get(task, "operation", "load")
        file_path == Get(task, "file_path", None)
        done ==
            CASE operation = "load" ->
                     [result |-> ETLAgent_load_data(file_path, task, env),
                      converted |-> FALSE, same_object |-> FALSE]
              [] operation = "transform" ->
                     ETLAgent_transform_data(task, ctx, env)
              [] operation = "save" ->
                     [result |-> ETLAgent_save_data(task, ctx, env),
                      converted |-> FALSE, same_object |-> FALSE]
              [] operation = "filter" ->
                     [result |-> ETLAgent_filter_data(task, ctx, env),
                      converted |-> FALSE,
                      same_object |-> "filters" \notin DOMAIN task]
              [] OTHER ->
                     [result |-> Failure(<<"Unknown operation: ", operation>>),
                      converted |-> FALSE, same_object |-> FALSE]
    IN  [result |-> done.result, logged |-> TRUE, events |-> <<>>,
         converted |-> done.converted, same_object |-> done.same_object]

QueryAgent_execute(task, ctx, env) ==
    IF ~has_df(ctx)
    THEN [result |-> Failure(<<"No DataFrame provided in context">>),
          logged |-> FALSE, events |-> <<>>, converted |-> FALSE,
          same_object |-> FALSE]
    ELSE IF ~IsFrame(ctx["df"]) \/ ~env.ok
    THEN \* the prompt template or the inference request raised
         [result |-> Failure(<<"Exception">>), logged |-> TRUE,
          events |-> <<>>, converted |-> FALSE, same_object |-> FALSE]
    ELSE LET done == execute_from_llm_response(
                         env.completion, [df |-> ctx["df"], pd |-> "pd"],
                         env.no_code_fails)
             exec_result == done.outcome
         IN  [result |-> [success |-> exec_result.success,
                          data |-> exec_result.result,
                          llm_response |-> "completion",
                          output |-> exec_result.output,
                          error |-> exec_result.error],
              logged |-> TRUE, events |-> done.events, converted |-> FALSE,
              same_object |-> FALSE]

\* generate_profile(df, output_path) was called and completed or raised
Rendered(ok) == [kind |-> "report", ok |-> ok]

ProfilingAgent_execute(task, ctx, env) ==
    IF ~has_df(ctx)
    THEN [result |-> Failure(<<"No DataFrame provided in context">>),
          logged |-> FALSE, events |-> <<>>, converted |-> FALSE,
          same_object |-> FALSE]
    ELSE IF ~IsFrame(ctx["df"])
    THEN \* len(df) or ProfileReport(df) raised on what is no DataFrame
         [result |-> Failure(<<"Exception">>), logged |-> TRUE,
          events |-> <<>>, converted |-> FALSE, same_object |-> FALSE]
    ELSE IF ~env.ok
    THEN \* generate_profile raised, inside the try block of execute
         [result |-> Failure(<<"Exception">>), logged |-> TRUE,
          events |-> <<Rendered(FALSE)>>, converted |-> FALSE,
          same_object |-> FALSE]
    ELSE [result |-> [success |-> TRUE, data |-> "stats", error |-> ErrNone,
                      metadata |-> [report_path |->
                          Get(task, "output_path",
                              "data/reports/profile.html")]],
          logged |-> TRUE, events |-> <<Rendered(TRUE)>>,
          converted |-> FALSE, same_object |-> FALSE]

execute(agent, task, ctx, env) ==
    CASE agent = ETL -> ETLAgent_execute(task, ctx, env)
      [] agent = QUERY -> QueryAgent_execute(task, ctx, env)
      [] agent = PROFILING -> ProfilingAgent_execute(task, ctx, env)

\* BaseAgent.log_execution
log_execution(counts, agent) ==
    [counts EXCEPT ![agent] = counts[agent] + 1]

(***************************************************************************)
(* The inputs.                                                             *)
(***************************************************************************)
Descriptions ==
    {"Load sales", "download data", "export filtered", "export csv",
     "summary report", "show totals", "plot chart", "clean report"}

\* The tasks workflows are made of.
TaskUniverse ==
    { [type |-> "etl", operation |-> "load", file_path |-> "a.csv",
       description |-> "Load sales", critical |-> TRUE],
      [type |-> "etl", operation |-> "load",
       description |-> "download data"],
      [type |-> "ETL", operation |-> "filter", filters |-> "region",
       description |-> "export filtered", critical |-> FALSE],
      [type |-> "etl", operation |-> "save", output_path |-> "out.csv",
       description |-> "export csv", critical |-> TRUE],
      [type |-> "query", query |-> "show totals",
       description |-> "show totals", critical |-> TRUE],
      [type |-> "profile", description |-> "summary report"],
      [type |-> "plot", description |-> "plot chart", critical |-> TRUE],
      [description |-> "clean report", critical |-> FALSE],
      [type |-> None, description |-> "plot chart"],
      [type |-> "etl", operation |-> "transform",
       transformations |->
           << [type |-> "convert_type", column |-> "a", dtype |-> "float"],
              [type |-> "convert_type", column |-> "missing",
               dtype |-> "float"] >>,
       description |-> "clean report"],
      [type |-> "etl", operation |-> "transform",
       transformations |->
           << [type |-> "rename"],
              [type |-> "convert_type", column |-> "a", dtype |-> "float"] >>,
       description |-> "clean report"] }

\* The tasks route_task is tried on: every type with every description.
RouteTasks ==
    {[type |-> t, description |-> d] :
        t \in {"etl", "ETL", "query", "profile", "plot", "", None},
        d \in Descriptions \cup {"", None}}
    \cup {[description |-> d] : d \in Descriptions}
    \cup {[type |-> t] : t \in {"etl", "query", "profile", "plot"}}

AllTasks == TaskUniverse \cup RouteTasks

\* The task-local contexts execute_task is called with (None is passed as
\* the empty dict: context or {}).
LocalContexts ==
    {EmptyDict, [df |-> "dfB"], [limit |-> "10"],
     [df |-> "dfA", limit |-> "10"]}

SeqsUpTo(S, n) == UNION {[1..m -> S] : m \in 0..n}

\* The task lists of length n
Workflows(n) == [1..n -> TaskUniverse]

\* What the inference server may answer to the planning request.
Requests == {"Load sales", "plot chart"}

Breakdowns == SeqsUpTo(Descriptions \cup {None}, MaxSteps)

Bodies ==
    {JsonInvalid, JsonList(<<>>),
     JsonObject([selected_agent |-> "ETL Agent"]),
     JsonObject([task_breakdown |-> JsonNull])}
    \cup {JsonObject([selected_agent |-> "ETL Agent",
                      task_breakdown |-> JsonList(items)]) :
              items \in Breakdowns}

Answers ==
    {[raises |-> TRUE,
      completion |-> [prose |-> FALSE, fenced |-> FALSE,
                      body |-> JsonInvalid]]}
    \cup {[raises |-> FALSE,
           completion |-> [prose |-> p, fenced |-> f, body |-> b]] :
              p \in BOOLEAN, f \in BOOLEAN, b \in Bodies}

\* The inner texts of fenced regions, the segments and the model answers
\* the code executor is tried on.
Inners ==
    { <<"\n", BindScalar, "\n">>, <<BindFrame>>, <<" ", BindOther, " ">>,
      <<"\n", UseUndefined>>, <<ImportOs, "\n">>,
      <<BindOther, "\n", BindScalar>>, <<BindScalar, "\n", UseUndefined>>,
      <<"\n">> }

Segments ==
    {Prose, Fence("json", <<BindScalar>>), Fence("", <<" ", BindScalar>>)}
    \cup {Fence("python", inner) : inner \in Inners}

Texts == SeqsUpTo(Segments, MaxBlocks)

\* The code execute_code and check_code_safety are called with.
Codes == {strip(inner) : inner \in Inners}

Namespaces == {EmptyDict, [df |-> "dfA", pd |-> "pd"]}

(***************************************************************************)
(* AgentOrchestrator.execute_task and the loop body of execute_workflow.   *)
(***************************************************************************)
merge_context_shared_wins(shared, local_context) ==
    [k \in DOMAIN shared \cup DOMAIN local_context |->
         IF k \in DOMAIN shared THEN shared[k] ELSE local_context[k]]

\* {**self.context, **(context or {})}
merge_context(shared, local_context) ==
    [k \in DOMAIN shared \cup DOMAIN local_context |->
         IF k \in DOMAIN local_context THEN local_context[k] ELSE shared[k]]

produced_data_any_success(result) == Get(result, "success", FALSE)

\* if result.get("success") and result.get("data") is not None
produced_data(result) ==
    Get(result, "success", FALSE) /\ Get(result, "data", None) # None

update_context_skipped(shared, result) == shared

update_context_unconditional(shared, result) ==
    [k \in DOMAIN shared \cup {"df"} |->
         IF k = "df" THEN result["data"] ELSE shared[k]]

\* self.context["df"] = result["data"]
update_context(shared, result) ==
    IF produced_data(result)
    THEN [k \in DOMAIN shared \cup {"df"} |->
              IF k = "df" THEN result["data"] ELSE shared[k]]
    ELSE shared

no_agent_result_without_error(task) ==
    [success |-> FALSE, data |-> None, error |-> ErrNone]

no_agent_result(task) ==
    [success |-> FALSE, data |-> None,
     error |-> <<"No agent available to handle task type: ",
                 Get(task, "type", "unknown")>>]

\* execution_context is a shallow copy: its "df" is the very object of
\* self.context["df"] unless the task-local context brought its own.
aliased_context(shared, local_context) ==
    has_df(shared) /\ ~has_df(local_context)

\* The contents of the object under self.context["df"] after the call:
\* a column converted in place by the agent stays converted; data that is
\* another object comes as the agent produced it.
AsProduced == "as produced"
ColumnConverted == "column converted"

contents_after(contents, shared, local_context, done) ==
    LET aliased == aliased_context(shared, local_context)
        after_agent == IF aliased /\ done.converted THEN ColumnConverted
                       ELSE contents
    IN  IF produced_data(done.result) /\ ~(aliased /\ done.same_object)
        THEN AsProduced
        ELSE after_agent

\* route_task on the tasks of the model, evaluated once
routing == [task \in AllTasks |-> route_task(task)]

routed(task) == routing[task]

\* One call of execute_task: whether it raised, the agent route_task gave,
\* the execution context handed to it, the result returned, and the
\* orchestrator's context and the agents' counters after the call.
execute_task(task, local_context, shared, contents, counts, env) ==
    LET agent == routed(task)
    IN  IF agent = Raise
        THEN [raised |-> TRUE, agent |-> None, execution_context |-> EmptyDict,
              result |-> EmptyDict, events |-> <<>>, context |-> shared,
              contents |-> contents, counts |-> counts]
        ELSE IF agent = None
        THEN [raised |-> FALSE, agent |-> None,
              execution_context |-> EmptyDict,
              result |-> no_agent_result(task), events |-> <<>>,
              context |-> shared, contents |-> contents, counts |-> counts]
        ELSE LET execution_context == merge_context(shared, local_context)
                 done == execute(agent, task, execution_context, env)
             IN  [raised |-> FALSE, agent |-> agent,
                  execution_context |-> execution_context,
                  result |-> done.result, events |-> done.events,
                  context |-> update_context(shared, done.result),
                  contents |-> contents_after(contents, shared,
                                              local_context, done),
                  counts |-> IF done.logged
                             THEN log_execution(counts, agent)
                             ELSE counts]

critical_failure_negation_dropped(result, task) ==
    result["success"] /\ Get(task, "critical", FALSE)

critical_failure_any_failure(result, task) == ~result["success"]

\* the call was an ETL load that succeeded
load_succeeded(out, task) ==
    /\ ~out.raised
    /\ out.agent = ETL
    /\ Get(task, "operation", "load") = "load"
    /\ out.result["success"]

\* if not result["success"] and task.get("critical", False): break
critical_failure(result, task) ==
    ~result["success"] /\ Get(task, "critical", FALSE)

(***************************************************************************)
(* CacheManager (src/cache/cache_manager.py).                              *)
(***************************************************************************)
Keys == {"a", "b"}
Values == {"v1", "v2"}
Backends == {"memory", "disk"}
\* the ttl_seconds argument of set: None, 0 or a number of seconds
TTLArgs == {<<>>, <<0>>, <<1>>}

dict_set(d, k, v) == [x \in DOMAIN d \cup {k} |-> IF x = k THEN v ELSE d[x]]
dict_del(d, k) == [x \in DOMAIN d \ {k} |-> d[x]]

\* hashlib.md5(key_str.encode()).hexdigest()
_generate_key(key_data) ==
    CASE key_data = "a" -> "0cc175b9c0f1b6a831c399e269772661"
      [] key_data = "b" -> "92eb5ffee6ae2fec3ad71c777531578f"

\* self.cache_dir / f"{cache_key}.pkl"
cache_file(cache_key) == <<cache_key, ".pkl">>

\* pickle.dump and pickle.load
pickle_dump(value) == <<"pickle", value>>
pickle_load(bytes) == bytes[2]

CacheManager_init(ttl) ==
    [ttl_seconds |-> ttl,
     memory_cache |-> EmptyDict,
     cache_dir |-> [f \in {} |-> <<>>],
     cache_metadata |-> [k \in {} |-> [created_at |-> 0, expires_at |-> 0,
                                        original_key |-> ""]]]

CacheManager_set_memory_only(self, key, value, backend, ttl_arg, now) ==
    LET cache_key == _generate_key(key)
        ttl == IF ttl_arg = <<>> \/ ttl_arg[1] = 0
               THEN self.ttl_seconds ELSE ttl_arg[1]
    IN  [self EXCEPT
           !.cache_metadata = dict_set(@, cache_key,
               [created_at |-> now, expires_at |-> now + ttl,
                original_key |-> key]),
           !.memory_cache = dict_set(@, cache_key, value)]

\* CacheManager.set; ttl = ttl_seconds or self.ttl_seconds
CacheManager_set(self, key, value, backend, ttl_arg, now) ==
    LET cache_key == _generate_key(key)
        ttl == IF ttl_arg = <<>> \/ ttl_arg[1] = 0
               THEN self.ttl_seconds ELSE ttl_arg[1]
    IN  [self EXCEPT
           !.cache_metadata = dict_set(@, cache_key,
               [created_at |-> now, expires_at |-> now + ttl,
                original_key |-> key]),
           !.memory_cache = IF backend = "memory"
                            THEN dict_set(@, cache_key, value) ELSE @,
           !.cache_dir = IF backend = "disk"
                         THEN dict_set(@, cache_file(cache_key),
                                       pickle_dump(value))
                         ELSE @]

CacheManager_delete_metadata_only(self, key, backend) ==
    [self EXCEPT !.cache_metadata = dict_del(@, _generate_key(key))]

\* CacheManager.delete
CacheManager_delete(self, key, backend) ==
    LET cache_key == _generate_key(key)
    IN  [self EXCEPT
           !.memory_cache = IF backend = "memory"
                            THEN dict_del(@, cache_key) ELSE @,
           !.cache_dir = IF backend = "disk"
                         THEN dict_del(@, cache_file(cache_key)) ELSE @,
           !.cache_metadata = dict_del(@, cache_key)]

\* CacheManager.get: the manager afterwards and the value returned
CacheManager_get(self, key, backend, now) ==
    LET cache_key == _generate_key(key)
    IN  IF /\ cache_key \in DOMAIN self.cache_metadata
           /\ now > self.cache_metadata[cache_key].expires_at
        THEN [self |-> CacheManager_delete(self, key, backend),
              value |-> None]
        ELSE IF backend = "memory"
        THEN [self |-> self,
              value |-> Get(self.memory_cache, cache_key, None)]
        ELSE IF cache_file(cache_key) \in DOMAIN self.cache_dir
        THEN [self |-> self,
              value |-> pickle_load(self.cache_dir[cache_file(cache_key)])]
        ELSE [self |-> self, value |-> None]

\* CacheManager.clear
CacheManager_clear(self, backend) ==
    [self EXCEPT
       !.memory_cache = IF backend \in {"memory", "both"}
                        THEN EmptyDict ELSE @,
       !.cache_dir = IF backend \in {"disk", "both"}
                     THEN [f \in {g \in DOMAIN @ : g[2] # ".pkl"} |-> @[f]]
                     ELSE @,
       !.cache_metadata = [k \in {} |-> [created_at |-> 0, expires_at |-> 0,
                                          original_key |-> ""]]]

NoCacheCall == [op |-> "none", key |-> None, backend |-> None,
                value |-> None, at |-> 0]

\* the last set on a key of a backend and what was called since
NeverSet == [state |-> "never", value |-> None, at |-> 0, ttl |-> 0,
             disturbed |-> FALSE]

(***************************************************************************)
(* MemoryStore (src/cache/memory_store.py).                                *)
(***************************************************************************)
Messages == {"m1", "m2"}

\* list[-n:]
last_slice(list, n) ==
    IF n = 0 \/ n >= Len(list) THEN list
    ELSE SubSeq(list, Len(list) - n + 1, Len(list))

MemoryStore_init(max_history) ==
    [max_history |-> max_history,
     conversation_history |-> <<>>,
     execution_logs |-> <<>>]

\* if len(list) > self.max_history: list = list[-self.max_history:]
trim(list, max_history) ==
    IF Len(list) > max_history THEN last_slice(list, max_history) ELSE list

\* MemoryStore.add_message
add_message(self, message) ==
    [self EXCEPT !.conversation_history =
                     trim(Append(@, message), self.max_history)]

\* MemoryStore.log_execution
MemoryStore_log_execution(self, log_entry) ==
    [self EXCEPT !.execution_logs =
                     trim(Append(@, log_entry), self.max_history)]

(***************************************************************************)
(* The orchestrator as a state machine.  A public operation is entered     *)
(* from state "ready", runs, and ends in "returned", "completed",          *)
(* "aborted" or "raised"; Return hands the outcome to the caller and       *)
(* makes the orchestrator ready for the next call.                         *)
(***************************************************************************)
NoAnswer ==
    [raises |-> TRUE,
     completion |-> [prose |-> FALSE, fenced |-> FALSE, body |-> JsonInvalid]]

Init ==
    /\ cleared = FALSE
    /\ context = EmptyDict
    /\ df_contents = AsProduced
    /\ execution_count = [a \in {ETL, QUERY, PROFILING} |-> 0]
    /\ calls = 0
    /\ op = "none"
    /\ state = "ready"
    /\ tasks = <<>>
    /\ i = 0
    /\ local = EmptyDict
    /\ results = <<>>
    /\ trace = <<>>
    /\ context0 = EmptyDict
    /\ request = ""
    /\ answer = NoAnswer
    /\ planned = <<>>
    /\ llm_text = <<>>
    /\ code_text = <<>>
    /\ code_context = EmptyDict
    /\ code_events = <<>>
    /\ outcome = None
    /\ cache = CacheManager_init(DefaultTTL)
    /\ clock = 0
    /\ cache_calls = 0
    /\ cache_ret = NoCacheCall
    /\ cache_log = [b \in Backends |-> [k \in Keys |-> NeverSet]]
    /\ store = MemoryStore_init(MaxHistory)
    /\ store_log = [messages |-> <<>>, logs |-> <<>>]

StoreUnchanged ==
    UNCHANGED <<cache, clock, cache_calls, cache_ret, cache_log, store,
                store_log>>

LLMUnchanged ==
    /\ UNCHANGED <<llm_text, code_text, code_context, code_events, outcome>>
    /\ StoreUnchanged

PlanUnchanged == UNCHANGED <<request, answer, planned>> /\ LLMUnchanged

\* results.append(result)
append_on_success(list, result) ==
    IF result["success"] THEN Append(list, result) ELSE list

append(list, result) == Append(list, result)

\* The record of one execute_task call: the position and the task it was
\* given, and what execute_task did.
Call(out, n, task) ==
    [index |-> n, task |-> task, agent |-> out.agent, raised |-> out.raised,
     execution_context |-> out.execution_context, result |-> out.result,
     events |-> out.events]

\* execute_workflow(task_list) is entered: results = []
ExecuteWorkflow(task_list) ==
    /\ state = "ready"
    /\ calls + Len(task_list) <= MaxCalls
    /\ op' = "execute_workflow"
    /\ state' = IF task_list = <<>> THEN "completed" ELSE "running"
    /\ tasks' = task_list
    /\ context0' = context
    /\ UNCHANGED <<cleared, context, df_contents, execution_count, calls, i, local,
                   results, trace>>
    /\ PlanUnchanged

\* One iteration of the for loop: execute_task, results.append, the break on
\* a critical failure, and the return once the loop has ended.
WorkflowStep(env) ==
    /\ op = "execute_workflow"
    /\ state = "running"
    /\ \E task \in {tasks[i + 1]} :
       \E out \in {execute_task(task, EmptyDict, context, df_contents,
                                execution_count, env)} :
           /\ i' = i + 1
           /\ calls' = calls + 1
           /\ trace' = Append(trace, Call(out, i + 1, task))
           /\ context' = out.context
           /\ df_contents' = out.contents
           /\ execution_count' = out.counts
           /\ cleared' = (cleared /\ ~load_succeeded(out, task))
           /\ IF out.raised
              THEN /\ state' = "raised"
                   /\ UNCHANGED results
              ELSE /\ results' = append(results, out.result)
                   /\ state' = IF critical_failure(out.result, task)
                               THEN "aborted"
                               ELSE IF i + 1 = Len(tasks) THEN "completed"
                               ELSE "running"
    /\ UNCHANGED <<op, tasks, local, context0>>
    /\ PlanUnchanged

\* execute_task(task, local_context) called on its own
ExecuteTask(task, local_context, env) ==
    /\ state = "ready"
    /\ calls + 1 <= MaxCalls
    /\ LET out == execute_task(task, local_context, context, df_contents,
                               execution_count, env)
       IN  /\ op' = "execute_task"
           /\ state' = IF out.raised THEN "raised" ELSE "returned"
           /\ tasks' = <<task>>
           /\ i' = 0
           /\ local' = local_context
           /\ results' = IF out.raised THEN <<>> ELSE <<out.result>>
           /\ trace' = <<Call(out, 1, task)>>
           /\ context0' = context
           /\ context' = out.context
           /\ df_contents' = out.contents
           /\ execution_count' = out.counts
           /\ cleared' = (cleared /\ ~load_succeeded(out, task))
           /\ calls' = calls + 1
    /\ PlanUnchanged

\* route_task(task) called on its own
RouteTask(task) ==
    /\ state = "ready"
    /\ LET agent == routed(task)
       IN  /\ op' = "route_task"
           /\ state' = IF agent = Raise THEN "raised" ELSE "returned"
           /\ tasks' = <<task>>
           /\ trace' = <<[index |-> 1, task |-> task,
                          agent |-> IF agent = Raise THEN None ELSE agent,
                          raised |-> agent = Raise,
                          execution_context |-> EmptyDict,
                          result |-> EmptyDict, events |-> <<>>]>>
    /\ context0' = context
    /\ UNCHANGED <<cleared, context, df_contents, execution_count, calls, i, local,
                   results>>
    /\ PlanUnchanged

\* clear_context()
ClearContext ==
    /\ state = "ready"
    /\ op' = "clear_context"
    /\ state' = "returned"
    /\ context' = EmptyDict
    /\ df_contents' = AsProduced
    /\ cleared' = TRUE
    /\ context0' = context
    /\ UNCHANGED <<execution_count, calls, tasks, i, local, results, trace>>
    /\ PlanUnchanged

\* parse_natural_language_workflow(user_request) with the inference server
\* answering ans
ParseWorkflow(user_request, ans) ==
    /\ state = "ready"
    /\ op' = "parse_natural_language_workflow"
    /\ state' = "returned"
    /\ request' = user_request
    /\ answer' = ans
    /\ planned' = parse_natural_language_workflow(user_request, ans)
    /\ context0' = context
    /\ UNCHANGED <<cleared, context, df_contents, execution_count, calls, tasks, i,
                   local, results, trace>>
    /\ LLMUnchanged

OrchestratorUnchanged ==
    /\ UNCHANGED <<cleared, context, df_contents, execution_count, calls, tasks, i,
                   local, results, trace, context0, request, answer, planned>>
    /\ StoreUnchanged

\* extract_code_blocks(text)
ExtractCodeBlocks(text) ==
    /\ state = "ready"
    /\ op' = "extract_code_blocks"
    /\ state' = "returned"
    /\ llm_text' = text
    /\ outcome' = extract_code_blocks(text)
    /\ UNCHANGED <<code_text, code_context, code_events>>
    /\ OrchestratorUnchanged

\* check_code_safety(source)
CheckCodeSafety(source) ==
    /\ state = "ready"
    /\ op' = "check_code_safety"
    /\ state' = "returned"
    /\ code_text' = source
    /\ outcome' = check_code_safety(source)
    /\ UNCHANGED <<llm_text, code_context, code_events>>
    /\ OrchestratorUnchanged

\* execute_code(source, context=namespace)
ExecuteCode(source, namespace) ==
    /\ state = "ready"
    /\ op' = "execute_code"
    /\ state' = "returned"
    /\ code_text' = source
    /\ code_context' = namespace
    /\ outcome' = execute_code(source, namespace)
    /\ UNCHANGED <<llm_text, code_events>>
    /\ OrchestratorUnchanged

\* execute_from_llm_response(text, context=namespace)
ExecuteFromLLMResponse(text, namespace, no_code_fails) ==
    /\ state = "ready"
    /\ LET done == execute_from_llm_response(text, namespace, no_code_fails)
       IN  /\ outcome' = done.outcome
           /\ code_events' = done.events
    /\ op' = "execute_from_llm_response"
    /\ state' = "returned"
    /\ llm_text' = text
    /\ code_context' = namespace
    /\ UNCHANGED code_text
    /\ OrchestratorUnchanged

\* main.py, LLM Mode: the model answered text on the uploaded dataset df
LLMMode(text, df) ==
    /\ state = "ready"
    /\ LET done == llm_mode(text, df)
       IN  /\ outcome' = done.shown
           /\ code_events' = done.events
    /\ op' = "llm_mode"
    /\ state' = "returned"
    /\ llm_text' = text
    /\ code_context' = [df |-> df]
    /\ UNCHANGED code_text
    /\ OrchestratorUnchanged

\* The operation has ended and its caller has taken the outcome.
Return ==
    /\ state \in {"returned", "completed", "aborted", "raised"}
    /\ state' = "ready"
    /\ op' = "none"
    /\ tasks' = <<>>
    /\ i' = 0
    /\ local' = EmptyDict
    /\ results' = <<>>
    /\ trace' = <<>>
    /\ context0' = EmptyDict
    /\ request' = ""
    /\ answer' = NoAnswer
    /\ planned' = <<>>
    /\ llm_text' = <<>>
    /\ code_text' = <<>>
    /\ code_context' = EmptyDict
    /\ code_events' = <<>>
    /\ outcome' = None
    /\ UNCHANGED <<cleared, context, df_contents, execution_count, calls>>
    /\ StoreUnchanged

Next ==
    \/ \E n \in 0..MaxTasks :
           /\ calls + n <= MaxCalls
           /\ \E task_list \in Workflows(n) : ExecuteWorkflow(task_list)
    \/ \E env \in Envs : WorkflowStep(env)
    \/ \E task \in TaskUniverse, local_context \in LocalContexts,
          env \in Envs : ExecuteTask(task, local_context, env)
    \/ \E task \in RouteTasks : RouteTask(task)
    \/ ClearContext
    \/ Return

Spec == Init /\ [][Next]_vars

\* execute_workflow is a synchronous for loop: once entered, its next
\* iteration is taken.
SpecFair == Spec /\ WF_vars(\E env \in Envs : WorkflowStep(env))

\* The planner alone, on a freshly constructed orchestrator.
NextPlan ==
    \/ \E user_request \in Requests, ans \in Answers :
           ParseWorkflow(user_request, ans)
    \/ Return

SpecPlan == Init /\ [][NextPlan]_vars

\* The code executor and the page that runs model-written code.
NextLLM ==
    \/ \E text \in Texts : ExtractCodeBlocks(text)
    \/ \E source \in Codes : CheckCodeSafety(source)
    \/ \E source \in Codes, namespace \in Namespaces :
           ExecuteCode(source, namespace)
    \/ \E text \in Texts, namespace \in Namespaces,
          no_code_fails \in BOOLEAN :
           ExecuteFromLLMResponse(text, namespace, no_code_fails)
    \/ \E text \in Texts, df \in {"dfA", "dfB"} : LLMMode(text, df)
    \/ Return

SpecLLM == Init /\ [][NextLLM]_vars

(***************************************************************************)
(* The router asked directly, and the planner's tasks given to it.         *)
(***************************************************************************)
\* agent.can_handle(task)
CanHandle(agent, task) ==
    /\ state = "ready"
    /\ op' = "can_handle"
    /\ state' = IF can_handle_raises(task) THEN "raised" ELSE "returned"
    /\ tasks' = <<task>>
    /\ trace' = <<[index |-> 1, task |-> task, agent |-> agent,
                   raised |-> can_handle_raises(task),
                   execution_context |-> EmptyDict,
                   result |-> EmptyDict, events |-> <<>>]>>
    /\ outcome' = IF can_handle_raises(task) THEN None
                  ELSE IF can_handle(agent, task) THEN "True" ELSE "False"
    /\ context0' = context
    /\ UNCHANGED <<cleared, context, df_contents, execution_count, calls, i, local,
                   results, request, answer, planned, llm_text, code_text,
                   code_context, code_events>>
    /\ StoreUnchanged

\* route_task(_infer_task_from_step(step)): a planned step on its way
\* through execute_task
InferAndRoute(step) ==
    /\ state = "ready"
    /\ \E task \in {_infer_task_from_step(step)} :
           /\ op' = "infer_and_route"
           /\ state' = "returned"
           /\ planned' = <<task>>
           /\ tasks' = <<task>>
           /\ trace' = <<[index |-> 1, task |-> task,
                          agent |-> route_task(task), raised |-> FALSE,
                          execution_context |-> EmptyDict,
                          result |-> EmptyDict, events |-> <<>>]>>
    /\ context0' = context
    /\ UNCHANGED <<cleared, context, df_contents, execution_count, calls, i, local,
                   results, request, answer>>
    /\ LLMUnchanged

NextRoute ==
    \/ \E agent \in {ETL, QUERY, PROFILING}, task \in AllTasks :
           CanHandle(agent, task)
    \/ \E step \in Descriptions : InferAndRoute(step)
    \/ Return

SpecRoute == Init /\ [][NextRoute]_vars

(***************************************************************************)
(* The CacheManager and the MemoryStore as state machines: every public    *)
(* method is one call that returns.                                        *)
(***************************************************************************)
CacheUnchanged ==
    /\ UNCHANGED <<cleared, context, df_contents, execution_count, calls, op, state,
                   tasks, i, local, results, trace, context0, request, answer,
                   planned, llm_text, code_text, code_context, code_events,
                   outcome>>
    /\ UNCHANGED <<store, store_log>>

\* cache.set(key, value, backend, ttl_seconds)
CacheSet(key, value, backend, ttl_arg) ==
    /\ cache_calls < MaxCacheCalls
    /\ cache_calls' = cache_calls + 1
    /\ cache' = CacheManager_set(cache, key, value, backend, ttl_arg, clock)
    /\ cache_ret' = [op |-> "set", key |-> key, backend |-> backend,
                     value |-> "True", at |-> clock]
    /\ cache_log' =
         [b \in Backends |-> [k \in Keys |->
            IF k # key THEN cache_log[b][k]
            ELSE IF b = backend
            THEN [state |-> "set", value |-> value, at |-> clock,
                  ttl |-> IF ttl_arg = <<>> \/ ttl_arg[1] = 0
                          THEN cache.ttl_seconds ELSE ttl_arg[1],
                  disturbed |-> FALSE]
            ELSE [cache_log[b][k] EXCEPT !.disturbed = TRUE]]]
    /\ UNCHANGED clock
    /\ CacheUnchanged

\* cache.get(key, backend)
CacheGet(key, backend) ==
    /\ cache_calls < MaxCacheCalls
    /\ cache_calls' = cache_calls + 1
    /\ \E out \in {CacheManager_get(cache, key, backend, clock)} :
           /\ cache' = out.self
           /\ cache_ret' = [op |-> "get", key |-> key, backend |-> backend,
                            value |-> out.value, at |-> clock]
    /\ UNCHANGED <<clock, cache_log>>
    /\ CacheUnchanged

\* cache.delete(key, backend)
CacheDelete(key, backend) ==
    /\ cache_calls < MaxCacheCalls
    /\ cache_calls' = cache_calls + 1
    /\ cache' = CacheManager_delete(cache, key, backend)
    /\ cache_ret' = [op |-> "delete", key |-> key, backend |-> backend,
                     value |-> "True", at |-> clock]
    /\ cache_log' =
         [b \in Backends |-> [k \in Keys |->
            IF k # key THEN cache_log[b][k]
            ELSE IF b = backend
            THEN [cache_log[b][k] EXCEPT !.state = "deleted",
                                         !.disturbed = TRUE]
            ELSE [cache_log[b][k] EXCEPT !.disturbed = TRUE]]]
    /\ UNCHANGED clock
    /\ CacheUnchanged

\* cache.clear(backend)
CacheClear(backend) ==
    /\ cache_calls < MaxCacheCalls
    /\ cache_calls' = cache_calls + 1
    /\ cache' = CacheManager_clear(cache, backend)
    /\ cache_ret' = [op |-> "clear", key |-> None, backend |-> backend,
                     value |-> "True", at |-> clock]
    /\ cache_log' =
         [b \in Backends |-> [k \in Keys |->
            IF backend = "both"
            THEN [cache_log[b][k] EXCEPT !.state = "cleared",
                                         !.disturbed = TRUE]
            ELSE IF backend = b
            THEN [cache_log[b][k] EXCEPT !.state = "cleared one",
                                         !.disturbed = TRUE]
            ELSE [cache_log[b][k] EXCEPT !.disturbed = TRUE]]]
    /\ UNCHANGED clock
    /\ CacheUnchanged

\* time passes between two calls
Tick ==
    /\ clock < MaxClock
    /\ clock' = clock + 1
    /\ UNCHANGED <<cache, cache_calls, cache_ret, cache_log>>
    /\ CacheUnchanged

NextCache ==
    \/ \E key \in Keys, value \in Values, backend \in Backends,
          ttl_arg \in TTLArgs : CacheSet(key, value, backend, ttl_arg)
    \/ \E key \in Keys, backend \in Backends : CacheGet(key, backend)
    \/ \E key \in Keys, backend \in Backends : CacheDelete(key, backend)
    \/ \E backend \in {"memory", "disk", "both"} : CacheClear(backend)
    \/ Tick

SpecCache == Init /\ [][NextCache]_vars

MemoryUnchanged ==
    /\ UNCHANGED <<cleared, context, df_contents, execution_count, calls, op, state,
                   tasks, i, local, results, trace, context0, request, answer,
                   planned, llm_text, code_text, code_context, code_events,
                   outcome>>
    /\ UNCHANGED <<cache, clock, cache_calls, cache_ret, cache_log>>

Added == Len(store_log.messages) + Len(store_log.logs)

\* store = MemoryStore(max_history)
NewMemoryStore(max_history) ==
    /\ store' = MemoryStore_init(max_history)
    /\ store_log' = [messages |-> <<>>, logs |-> <<>>]
    /\ MemoryUnchanged

\* store.add_message(role, content)
AddMessage(role, content) ==
    /\ Added < MaxAdds
    /\ \E message \in {[role |-> role, content |-> content,
                        timestamp |-> Added + 1]} :
           /\ store' = add_message(store, message)
           /\ store_log' = [store_log EXCEPT !.messages = Append(@, message)]
    /\ MemoryUnchanged

\* store.log_execution(operation, status)
LogExecution(operation, status) ==
    /\ Added < MaxAdds
    /\ \E log_entry \in {[operation |-> operation, status |-> status,
                          timestamp |-> Added + 1]} :
           /\ store' = MemoryStore_log_execution(store, log_entry)
           /\ store_log' = [store_log EXCEPT !.logs = Append(@, log_entry)]
    /\ MemoryUnchanged

NextStore ==
    \/ \E max_history \in 0..MaxHistory : NewMemoryStore(max_history)
    \/ \E role \in {"user", "assistant"}, content \in Messages :
           AddMessage(role, content)
    \/ \E operation \in {"load", "query"}, status \in {"success", "error"} :
           LogExecution(operation, status)

SpecStore == Init /\ [][NextStore]_vars

(***************************************************************************)
(* Properties of execute_workflow and execute_task.                        *)
(***************************************************************************)
InWorkflow == op = "execute_workflow"

\* the task at position n failed and is marked critical
CriticalFailed(n) ==
    /\ ~results[n].success
    /\ "critical" \in DOMAIN tasks[n]
    /\ tasks[n].critical = TRUE

\* the result at position n carries data that execute_task stores
Produced(n) == results[n].success /\ results[n].data # None

Max(S) == CHOOSE x \in S : \A y \in S : y <= x

\* C1: in execute_workflow, when the task at position n is the first one
\* whose result failed while the task is critical, the loop has stopped
\* there: no later task was routed or executed, the workflow has returned
\* and its results list has exactly n entries.
C1_CriticalFailureStops ==
    InWorkflow =>
        \A n \in 1..Len(results) :
            (CriticalFailed(n) /\ \A m \in 1..(n - 1) : ~CriticalFailed(m))
            => /\ Len(results) = n
               /\ state = "aborted"
               /\ i = n
               /\ \A k \in 1..Len(trace) : trace[k].index <= n

C1_Witness ==
    /\ InWorkflow
    /\ state = "aborted"
    /\ Len(tasks) = 3
    /\ Len(results) = 2
    /\ ~results[1].success
    /\ CriticalFailed(2)

\* C2: in execute_workflow, when no failed task is critical, the workflow
\* that has ended has executed every task of the list and
\* len(results) = len(tasks): a task that fails without being critical
\* never stops the workflow.
C2_NonCriticalFailureNeverStops ==
    ( /\ InWorkflow
      /\ state \in {"completed", "aborted", "raised"}
      /\ \A n \in 1..Len(results) : ~CriticalFailed(n) )
    => /\ state = "completed"
       /\ Len(results) = Len(tasks)
       /\ Len(trace) = Len(tasks)

\* C3: the results list is aligned with a prefix of tasks: it is never
\* longer than tasks, the k-th call of execute_task was made on tasks[k],
\* results[k] is what that call returned, every call that returned added
\* exactly one result and no task was executed twice.
C3_ResultsAlignedWithTasks ==
    InWorkflow =>
        /\ Len(results) <= Len(tasks)
        /\ Len(trace) = i
        /\ i <= Len(tasks)
        /\ \A k \in 1..Len(trace) :
               /\ trace[k].index = k
               /\ trace[k].task = tasks[k]
        /\ \A k \in 1..Len(results) :
               /\ ~trace[k].raised
               /\ results[k] = trace[k].result
        /\ Cardinality({k \in 1..Len(trace) : ~trace[k].raised})
               = Len(results)

C3_Witness ==
    /\ InWorkflow
    /\ state = "completed"
    /\ Len(results) = 3
    /\ results[1].success
    /\ ~results[2].success
    /\ results[3].success

\* C4: the tasks of a workflow run in sequence over the shared context: the
\* execution context handed to the agent of task j holds under "df" the
\* data of the most recent earlier task whose result had success = true and
\* data other than None, and what SharedContext held when the workflow was
\* entered if there is no such task.
C4_SequentialContext ==
    InWorkflow =>
        \A j \in 1..Len(trace) :
            trace[j].agent # None =>
                LET earlier == {k \in 1..(j - 1) : Produced(k)}
                    given == trace[j].execution_context
                IN  IF earlier # {}
                    THEN /\ has_df(given)
                         /\ given["df"] = results[Max(earlier)].data
                    ELSE given = context0

C4_Witness ==
    /\ InWorkflow
    /\ Len(trace) >= 2
    /\ Produced(1)
    /\ trace[2].agent # None
    /\ has_df(context0)
    /\ context0["df"] # results[1].data
    /\ trace[2].execution_context["df"] = results[1].data

\* C5: a call of execute_task changes SharedContext only when its result
\* has success = true and data other than None, and then only by setting
\* SharedContext["df"] to that data; on a failed result, on a successful
\* result whose data is None and when no agent was found, SharedContext is
\* left as it was.
IsCall ==
    \/ op' = "execute_workflow" /\ i' = i + 1
    \/ op' = "execute_task" /\ op = "none"

C5_ContextFrame ==
    [][ IsCall =>
          LET call == trace'[Len(trace')]
          IN  IF ~call.raised /\ call.result.success
                 /\ call.result.data # None
              THEN /\ DOMAIN context' = DOMAIN context \cup {"df"}
                   /\ context'["df"] = call.result.data
                   /\ \A k \in DOMAIN context \ {"df"} :
                          context'[k] = context[k]
              ELSE context' = context ]_vars

C5_Witness ==
    /\ op = "execute_task"
    /\ state = "returned"
    /\ trace[1].agent = ETL
    /\ results[1].success
    /\ results[1].data = None
    /\ has_df(context)
    /\ context = context0

(***************************************************************************)
(* Properties of routing.                                                  *)
(***************************************************************************)
\* C6: no public operation of the core raises: route_task, execute_task and
\* execute_workflow end by returning, for every task mapping, and every
\* call of execute_task gives back a result dict that carries success.
C6_NoOperationRaises ==
    /\ state # "raised"
    /\ \A k \in 1..Len(trace) :
           /\ ~trace[k].raised
           /\ op \in {"execute_task", "execute_workflow"}
                  => "success" \in DOMAIN trace[k].result

AgentTypes == {"etl", "query", "profile"}

AgentKeywords ==
    {"load", "extract", "transform", "clean", "filter", "save", "export",
     "query", "question", "analyze", "what", "how", "show", "find", "get",
     "profile", "quality", "summary", "statistics", "report", "describe"}

\* the task's type is none of etl/query/profile (compared without regard
\* to case, as the agents compare it) and its description holds no keyword
\* of any agent; a missing or None value is no agent's type and holds no
\* keyword
Unrecognized(task) ==
    /\ \/ "type" \notin DOMAIN task
       \/ task["type"] = None
       \/ \A t \in AgentTypes : Lower(Chars(task["type"])) # Chars(t)
    /\ \/ "description" \notin DOMAIN task
       \/ task["description"] = None
       \/ \A kw \in AgentKeywords :
              ~Contains(Lower(Chars(task["description"])), Chars(kw))

\* C7: for a task whose type is none of etl/query/profile and whose
\* description contains no agent's keyword, route_task returns None and
\* execute_task returns success = false, data = None and an error that
\* names the task's type, and no agent's execute is invoked.
C7_UnrecognizedTaskFails ==
    \A k \in 1..Len(trace) :
        Unrecognized(trace[k].task) =>
            /\ ~trace[k].raised
            /\ trace[k].agent = None
            /\ op \in {"execute_task", "execute_workflow"} =>
                   /\ trace[k].result.success = FALSE
                   /\ trace[k].result.data = None
                   /\ trace[k].result.error # ErrNone
                   /\ trace[k].result.error[Len(trace[k].result.error)]
                          = Get(trace[k].task, "type", "unknown")

\* C8: route_task returns the first agent, in the order ETL, Query,
\* Profiling, whose can_handle(task) is true: when several agents can
\* handle the task the earliest is chosen, and None is returned exactly
\* when no agent's can_handle is true.
C8_FirstCapableAgent ==
    \A k \in 1..Len(trace) :
        ~trace[k].raised =>
            LET order == <<"ETL Agent", "Query Agent", "Profiling Agent">>
                able == {n \in 1..3 : can_handle(order[n], trace[k].task)}
            IN  IF able = {} THEN trace[k].agent = None
                ELSE /\ trace[k].agent = order[CHOOSE n \in able :
                                                  \A m \in able : n <= m]
                     /\ can_handle(trace[k].agent, trace[k].task)

C8_Witness ==
    /\ op = "route_task"
    /\ state = "returned"
    /\ trace[1].agent = "ETL Agent"
    /\ QueryAgent_can_handle(trace[1].task)
    /\ ProfilingAgent_can_handle(trace[1].task)

(***************************************************************************)
(* Properties of the planner.                                              *)
(***************************************************************************)
Planned == op = "parse_natural_language_workflow" /\ state = "returned"

\* The document the answer carries, when it carries one.
Document(ans) ==
    IF ans.completion.fenced \/ ~ans.completion.prose
    THEN ans.completion.body
    ELSE JsonInvalid

\* The planning request failed: the inference call raised, the answer is
\* not parsable JSON, or the parsed answer cannot be turned into steps (it
\* is no object, its task_breakdown is null or one of its steps is no
\* string).
PlanningFailed(ans) ==
    \/ ans.raises
    \/ Document(ans).json = "invalid"
    \/ Document(ans).json # "object"
    \/ /\ "task_breakdown" \in DOMAIN Document(ans).value
       /\ LET steps == Document(ans).value["task_breakdown"]
          IN  \/ steps.json # "array"
              \/ \E n \in 1..Len(steps.items) : steps.items[n] = None

\* the strings of task_breakdown of a successful answer
Steps(ans) ==
    IF "task_breakdown" \in DOMAIN Document(ans).value
    THEN Document(ans).value["task_breakdown"].items
    ELSE <<>>

\* C9: when the structured planning request fails,
\* parse_natural_language_workflow returns exactly one task, of type query,
\* whose query field is the original request string unmodified.
C9_PlanningFallback ==
    (Planned /\ PlanningFailed(answer)) =>
        /\ Len(planned) = 1
        /\ planned[1]["type"] = "query"
        /\ "query" \in DOMAIN planned[1]
        /\ planned[1]["query"] = request

C9_Witness ==
    /\ Planned
    /\ ~answer.raises
    /\ answer.completion.fenced
    /\ Document(answer).json = "object"
    /\ PlanningFailed(answer)
    /\ request = "plot chart"
    /\ planned[1]["query"] = "plot chart"

\* The keyword groups in priority order, with the kind each one decides.
KeywordGroups ==
    << [keywords |-> {"load", "read", "import"}, kind |-> <<"etl", "load">>],
       [keywords |-> {"filter", "select", "where"},
        kind |-> <<"etl", "filter">>],
       [keywords |-> {"save", "export", "write"}, kind |-> <<"etl", "save">>],
       [keywords |-> {"profile", "report", "summary"},
        kind |-> <<"profile", None>>],
       [keywords |-> {"query", "find", "show", "get", "calculate"},
        kind |-> <<"query", None>>] >>

Matches(step, n) ==
    \E kw \in KeywordGroups[n].keywords :
        Contains(Lower(Chars(step)), Chars(kw))

ExpectedKind(step) ==
    LET matching == {n \in 1..Len(KeywordGroups) : Matches(step, n)}
    IN  IF matching = {} THEN <<"query", None>>
        ELSE KeywordGroups[CHOOSE n \in matching :
                               \A m \in matching : n <= m].kind

Kind(task) == <<task["type"], Get(task, "operation", None)>>

\* C10: on a successful planning answer every string of task_breakdown
\* yields exactly one task, in the same order, and the kind of the task is
\* the one of the first keyword group, in priority order, one of whose
\* keywords the step contains without regard to case; query when no group
\* matches.
C10_StepsBecomeTasks ==
    (Planned /\ ~PlanningFailed(answer)) =>
        /\ Len(planned) = Len(Steps(answer))
        /\ \A n \in 1..Len(planned) :
               /\ planned[n]["description"] = Steps(answer)[n]
               /\ Kind(planned[n]) = ExpectedKind(Steps(answer)[n])

C10_Witness ==
    /\ Planned
    /\ ~PlanningFailed(answer)
    /\ Len(planned) = 2
    /\ Steps(answer) = <<"export filtered", "Load sales">>
    /\ Kind(planned[1]) = <<"etl", "filter">>
    /\ Kind(planned[2]) = <<"etl", "load">>

(***************************************************************************)
(* Properties of the code executor.                                        *)
(***************************************************************************)
RunsModelCode == op \in {"llm_mode", "execute_from_llm_response"}

\* C11: model-written code is never executed unless the validator accepted
\* it: every execution of a candidate extracted from a model answer comes
\* after a verdict is_safe = true on that same candidate, and a rejected
\* candidate is not executed at all and gives a failed outcome that carries
\* the rejection reason.
C11_ExecutedOnlyIfAccepted ==
    RunsModelCode =>
        /\ \A k \in 1..Len(code_events) :
               code_events[k].kind = "exec" =>
                   \E j \in 1..(k - 1) :
                       /\ code_events[j].kind = "validate"
                       /\ code_events[j].code = code_events[k].code
                       /\ code_events[j].is_safe
        /\ \A j \in 1..Len(code_events) :
               (code_events[j].kind = "validate" /\ ~code_events[j].is_safe)
               => /\ \A k \in 1..Len(code_events) :
                         code_events[k].kind # "exec"
                  /\ outcome.success = FALSE
                  /\ outcome.error # ErrNone

\* the code, run in the namespace, raises: it reads a name nothing binds
Raises(source, namespace) ==
    \E n \in 1..Len(source) :
        \/ source[n] = UseUndefined
        \/ source[n] = BindFrame /\ "df" \notin DOMAIN namespace

\* the code binds the local name result
BindsResult(source) ==
    \E n \in 1..Len(source) : source[n] \in {BindScalar, BindFrame}

\* C12: execute_code never lets an exception out: it returns, with
\* success = true exactly when the code ran to completion without raising;
\* when the code raises, success = false, error is set and result is None.
C12_ExecuteCodeCatches ==
    op = "execute_code" =>
        /\ state = "returned"
        /\ outcome.success = ~Raises(code_text, code_context)
        /\ Raises(code_text, code_context) =>
               /\ outcome.error # ErrNone
               /\ outcome.result = None

C12_Witness ==
    /\ op = "execute_code"
    /\ code_text = <<BindScalar, "\n", UseUndefined>>
    /\ ~outcome.success
    /\ outcome.result = None

\* C13: when the executed code completes without raising but binds no local
\* result, the outcome is success = true with data None, and the QueryAgent
\* task that ran it leaves SharedContext as it was.
C13_UnboundResultIsNotFailure ==
    [][ IsCall =>
          LET call == trace'[Len(trace')]
          IN  ( /\ call.agent = "Query Agent"
                /\ \E k \in 1..Len(call.events) :
                       /\ call.events[k].kind = "exec"
                       /\ ~Raises(call.events[k].code, call.execution_context)
                       /\ ~BindsResult(call.events[k].code) )
              => /\ call.result.success = TRUE
                 /\ call.result.data = None
                 /\ call.result.error = ErrNone
                 /\ context' = context ]_vars

C13_Witness ==
    /\ op = "execute_task"
    /\ state = "returned"
    /\ trace[1].agent = "Query Agent"
    /\ trace[1].events = <<Validated(<<BindOther>>, [is_safe |-> TRUE]),
                           Executed(<<BindOther>>)>>
    /\ results[1].success
    /\ results[1].data = None
    /\ has_df(context)
    /\ context = context0

\* the inner text without its leading and trailing whitespace
Trimmed(inner) ==
    LET solid == {n \in 1..Len(inner) : inner[n] \notin Whitespace}
    IN  IF solid = {} THEN <<>>
        ELSE SubSeq(inner, CHOOSE n \in solid : \A m \in solid : n <= m,
                    CHOOSE n \in solid : \A m \in solid : m <= n)

\* C14: extract_code_blocks returns the trimmed inner text of every fenced
\* block tagged python, in order of appearance: n such blocks give a list of
\* length n, none gives the empty list.
C14_ExtractCodeBlocks ==
    op = "extract_code_blocks" =>
        LET tagged == {n \in 1..Len(llm_text) :
                          /\ llm_text[n].kind = "fence"
                          /\ llm_text[n].tag = "python"}
        IN  /\ state = "returned"
            /\ Len(outcome) = Cardinality(tagged)
            /\ \A n \in tagged :
                   outcome[Cardinality({m \in tagged : m <= n})]
                       = Trimmed(llm_text[n].inner)

C14_Witness ==
    /\ op = "extract_code_blocks"
    /\ Len(llm_text) = 2
    /\ llm_text[1] = Fence("python", <<"\n", BindScalar, "\n">>)
    /\ llm_text[2] = Fence("python", <<BindOther, "\n", BindScalar>>)
    /\ outcome = << <<BindScalar>>, <<BindOther, "\n", BindScalar>> >>

(***************************************************************************)
(* Properties of the agents.                                               *)
(***************************************************************************)
Executes == op \in {"execute_task", "execute_workflow"}

\* C15: a failure of the HTML report rendering does not invalidate the
\* profiling result: when the dataset is in the context and
\* generate_profile raises, ProfilingAgent.execute still returns
\* success = true with the quick statistics as data.
C15_ReportFailureKeepsStatistics ==
    Executes =>
        \A k \in 1..Len(trace) :
            ( /\ trace[k].agent = "Profiling Agent"
              /\ has_df(trace[k].execution_context)
              /\ IsFrame(trace[k].execution_context["df"])
              /\ \E n \in 1..Len(trace[k].events) :
                     /\ trace[k].events[n].kind = "report"
                     /\ ~trace[k].events[n].ok )
            => /\ trace[k].result.success = TRUE
               /\ trace[k].result.data = "stats"

\* C16: every operation that needs the dataset (ETL transform, filter and
\* save, the Query agent, the Profiling agent) returns a structured failure
\* (success = false, data = None, error set) without raising when the
\* execution context has no "df"; only ETL load can succeed without it.
C16_MissingDatasetFails ==
    Executes =>
        \A k \in 1..Len(trace) :
            ( /\ trace[k].agent # None
              /\ ~has_df(trace[k].execution_context)
              /\ ~ ( /\ trace[k].agent = "ETL Agent"
                     /\ Get(trace[k].task, "operation", "load") = "load" ) )
            => /\ ~trace[k].raised
               /\ trace[k].result.success = FALSE
               /\ trace[k].result.data = None
               /\ trace[k].result.error # ErrNone

C16_Witness ==
    /\ op = "execute_workflow"
    /\ Len(trace) = 3
    /\ \A k \in 1..3 : ~has_df(trace[k].execution_context)
    /\ trace[1].agent = "ETL Agent"
    /\ Get(trace[1].task, "operation", "load") = "transform"
    /\ trace[2].agent = "Profiling Agent"
    /\ trace[3].agent = "Query Agent"
    /\ \A k \in 1..3 : ~results[k].success

\* C17: in every reachable state the value under SharedContext["df"], when
\* present, is the active dataset, a tabular dataset, whatever tasks have
\* been executed.
C17_DfIsDataset ==
    has_df(context) => IsFrame(context["df"])

\* C18: every result execute_task returns, on every path of every agent and
\* on routing failure, carries the four fields success, data, error and
\* metadata.
C18_ResultHasFourFields ==
    Executes =>
        \A k \in 1..Len(trace) :
            ~trace[k].raised =>
                {"success", "data", "error", "metadata"}
                    \subseteq DOMAIN trace[k].result

\* C19: an agent never modifies SharedContext or the dataset it refers to:
\* after a task that failed, an ETL transform among them, SharedContext and
\* the contents of the dataset under SharedContext["df"] are what they were
\* before the task.
C19_FailedTaskLeavesDataset ==
    [][ IsCall =>
          LET call == trace'[Len(trace')]
          IN  (~call.raised /\ ~call.result.success)
              => /\ context' = context
                 /\ df_contents' = df_contents ]_vars

\* C20: the execution context execute_task(task, context) hands to the
\* agent is the union of SharedContext and the task-local context: every
\* key of either is in it, and a key of both, "df" included, has the
\* task-local value.
C20_LocalContextWins ==
    op = "execute_task" =>
        \A k \in 1..Len(trace) :
            trace[k].agent # None =>
                LET given == trace[k].execution_context
                IN  /\ DOMAIN given = DOMAIN context0 \cup DOMAIN local
                    /\ \A key \in DOMAIN local : given[key] = local[key]
                    /\ \A key \in DOMAIN context0 \ DOMAIN local :
                           given[key] = context0[key]

C20_Witness ==
    /\ op = "execute_task"
    /\ trace[1].agent # None
    /\ has_df(context0)
    /\ DOMAIN local = {"df", "limit"}
    /\ context0["df"] # local["df"]
    /\ trace[1].execution_context["df"] = local["df"]
    /\ trace[1].execution_context["limit"] = local["limit"]

(***************************************************************************)
(* The workflow and its tasks as state machines.                           *)
(***************************************************************************)
\* The state of the task at position k of the running workflow.
TaskState(k) ==
    IF k > Len(trace) THEN "Pending"
    ELSE IF trace[k].raised THEN "Raised"
    ELSE IF trace[k].result.success THEN "Succeeded"
    ELSE "Failed"

\* every can_handle and execute call on the tasks of the workflow returns
EachCallReturns == \A k \in 1..Len(tasks) : ~can_handle_raises(tasks[k])

WorkflowEnds ==
    [] ( (InWorkflow /\ EachCallReturns) =>
           /\ state \in {"running", "aborted", "completed"}
           /\ state = "aborted" =>
                  /\ Len(results) >= 1
                  /\ CriticalFailed(Len(results))
                  /\ \A k \in (Len(results) + 1)..Len(tasks) :
                         TaskState(k) = "Pending"
           /\ state = "completed" =>
                  /\ Len(results) = Len(tasks)
                  /\ \A k \in 1..Len(tasks) :
                         TaskState(k) \in {"Succeeded", "Failed"}
           /\ state = "running" => Len(trace) < Len(tasks) )

TaskMovesOnce ==
    [][ (InWorkflow /\ op' = op /\ EachCallReturns) =>
          \A k \in 1..Len(tasks) :
              \/ TaskState(k)' = TaskState(k)
              \/ /\ TaskState(k) = "Pending"
                 /\ TaskState(k)' \in {"Succeeded", "Failed"}
                 /\ k = i + 1
                 /\ state = "running" ]_vars

\* C21: provided each agent call returns, every execute_workflow run over
\* a finite task list ends, in exactly one of two states: Aborted, only
\* when a critical task failed, or Completed, only when all tasks were
\* processed; each task leaves Pending at most once, for Succeeded or
\* Failed, and the tasks behind an abort stay Pending.
C21_WorkflowStateMachine ==
    /\ WorkflowEnds
    /\ TaskMovesOnce
    /\ (InWorkflow /\ state = "running" /\ EachCallReturns)
           ~> (InWorkflow /\ state \in {"aborted", "completed"})

C21_Witness ==
    /\ InWorkflow
    /\ EachCallReturns
    /\ state = "aborted"
    /\ Len(tasks) = 3
    /\ TaskState(1) = "Failed"
    /\ TaskState(2) = "Pending"
    /\ TaskState(3) = "Pending"

(***************************************************************************)
(* Properties of the CacheManager and the MemoryStore.                     *)
(***************************************************************************)
\* the last call was get(key, backend)
Got == cache_ret.op = "get"

\* what is known of the key and backend of the last call
Entry == cache_log[cache_ret.backend][cache_ret.key]

OtherEntry ==
    cache_log[CHOOSE b \in Backends : b # cache_ret.backend][cache_ret.key]

\* the entry of the last set was still within its TTL at the last call
Fresh(entry) == cache_ret.at <= entry.at + entry.ttl

C23_CacheRemoval ==
    (Got /\ Entry.state \in {"never", "deleted", "cleared"})
        => cache_ret.value = None

C23_Witness ==
    /\ Got
    /\ Entry.state = "deleted"
    /\ OtherEntry.state = "set"
    /\ cache_ret.value = None

\* C24: a non-None value returned by get(key, backend) was stored by a set
\* on that key and backend that has not expired: the set is not longer ago
\* than its TTL.
C24_NoExpiredValue ==
    (Got /\ cache_ret.value # None) =>
        /\ Entry.state # "never"
        /\ cache_ret.value = Entry.value
        /\ Fresh(Entry)

\* the entries added, without those that max_history entries followed
LastAdded(list, max_history) ==
    SubSeq(list, Max({1, Len(list) - max_history + 1}), Len(list))

\* C25: the conversation history and the execution log have length
\* <= max_history, for every max_history >= 0, and hold the most recently
\* added entries in insertion order.
C25_HistoryBounded ==
    /\ Len(store.conversation_history) <= store.max_history
    /\ Len(store.execution_logs) <= store.max_history
    /\ store.conversation_history =
           LastAdded(store_log.messages, store.max_history)
    /\ store.execution_logs = LastAdded(store_log.logs, store.max_history)

(***************************************************************************)
(* Properties of can_handle, and of planning followed by routing.          *)
(***************************************************************************)
KindOf(agent) ==
    CASE agent = ETL -> "etl"
      [] agent = QUERY -> "query"
      [] agent = PROFILING -> "profile"

KeywordsOf(agent) ==
    CASE agent = ETL -> etl_keywords
      [] agent = QUERY -> query_keywords
      [] agent = PROFILING -> profiling_keywords

\* the task's kind is the agent's kind (read without regard to letter
\* case, as the agents read it)
KindMatches(agent, task) ==
    /\ IsStr(Get(task, "type", ""))
    /\ Lower(Chars(Get(task, "type", ""))) = Chars(KindOf(agent))

\* the description contains one of the agent's keywords
KeywordMatches(agent, task) ==
    /\ IsStr(Get(task, "description", ""))
    /\ \E n \in 1..Len(KeywordsOf(agent)) :
           Contains(Lower(Chars(Get(task, "description", ""))),
                    Chars(KeywordsOf(agent)[n]))

\* C26: for each agent, can_handle(task) is true exactly when the task's
\* kind is the agent's kind or the description contains, case-insensitively
\* as a substring, one of the agent's keywords; a task with neither is not
\* handled by that agent.
C26_CanHandleExactly ==
    op = "can_handle" =>
        /\ state = "returned"
        /\ outcome = "True" <=>
               \/ KindMatches(trace[1].agent, trace[1].task)
               \/ KeywordMatches(trace[1].agent, trace[1].task)

AgentOfType(type) ==
    CASE type = "etl" -> ETL
      [] type = "query" -> QUERY
      [] type = "profile" -> PROFILING

\* C28: for every step string, the task built by _infer_task_from_step is
\* routed by route_task to the agent of the task's own type, also when the
\* step text contains keywords of another agent.
C28_PlanningAndRoutingAgree ==
    op = "infer_and_route" =>
        trace[1].agent = AgentOfType(planned[1].type)

(***************************************************************************)
(* Properties of SharedContext across calls.                               *)
(***************************************************************************)
\* the call just made, on a step that is a call of execute_task
LastCall == trace'[Len(trace')]

\* the call reached an operation that needs the dataset
RequiresDataset(call) ==
    /\ ~call.raised
    /\ call.agent # None
    /\ ~ ( /\ call.agent = ETL
           /\ Get(call.task, "operation", "load") = "load" )

\* execute_task and execute_workflow never remove a key of SharedContext,
\* and a workflow starts on the context the previous operation left
ContextOutlivesCalls ==
    [][ /\ IsCall => DOMAIN context \subseteq DOMAIN context'
        /\ (op = "none" /\ op' \notin {"clear_context", "execute_task"})
               => context' = context
        /\ (op # "none" /\ op' = "none") => context' = context ]_vars

\* after clear_context the context has no keys
ClearedIsEmpty == [](op = "clear_context" => context = EmptyDict)

\* C27 as stated: after clear_context, every dataset-requiring task run
\* without task-local "df" fails until a load succeeds again.
C27_FailsUntilLoad ==
    /\ ContextOutlivesCalls
    /\ ClearedIsEmpty
    /\ [][ (IsCall /\ RequiresDataset(LastCall) /\ ~has_df(local')
            /\ cleared)
           => ~LastCall.result.success ]_vars

\* C27, amended: execute_task and execute_workflow never remove a key from
\* SharedContext and the context one operation leaves is the one the next
\* starts on; after clear_context the context has no keys, and every
\* dataset-requiring task run without task-local "df" fails as long as
\* SharedContext holds no "df", which only a call that succeeds with data
\* brings back: a load, or a task that was given a task-local "df".
C27_FailsUntilDataProduced ==
    /\ ContextOutlivesCalls
    /\ ClearedIsEmpty
    /\ [][ (IsCall /\ RequiresDataset(LastCall) /\ ~has_df(local')
            /\ ~has_df(context))
           => ~LastCall.result.success ]_vars
    /\ [][ (IsCall /\ ~has_df(context) /\ has_df(context'))
           => /\ ~LastCall.raised
              /\ LastCall.result.success
              /\ context'["df"] = LastCall.result.data
              /\ \/ load_succeeded(LastCall, LastCall.task)
                 \/ has_df(local') ]_vars

\* clear_context has emptied a context in which a call had left a dataset
C27_Witness ==
    /\ op = "clear_context"
    /\ state = "returned"
    /\ calls >= 1
    /\ has_df(context0)
    /\ context = EmptyDict

(***************************************************************************)
(* Properties of the agents' counters and results.                         *)
(***************************************************************************)
\* C29: each agent's execution_count is the number of times its execute
\* was invoked: a call of execute_task that reaches an agent's execute
\* raises that agent's counter by exactly one, on success and on failure,
\* the missing-dataset failures included, and nothing else changes a
\* counter.
C29_CountsEveryExecution ==
    [][ IF IsCall /\ ~LastCall.raised /\ LastCall.agent # None
        THEN execution_count' =
                 [execution_count EXCEPT ![LastCall.agent] = @ + 1]
        ELSE execution_count' = execution_count ]_vars

\* C30: in every result of ETLAgent.execute, of ProfilingAgent.execute and
\* of execute_task on a routing failure, success = false implies data is
\* None and error is not None, and success = true implies error is None.
C30_SuccessAndErrorConsistent ==
    Executes =>
        \A k \in 1..Len(trace) :
            (~trace[k].raised /\ trace[k].agent \in {ETL, PROFILING, None})
            => LET result == trace[k].result
               IN  /\ ~result["success"] =>
                          /\ Get(result, "data", None) = None
                          /\ Get(result, "error", ErrNone) # ErrNone
                   /\ result["success"] =>
                          Get(result, "error", ErrNone) = ErrNone

C30_Witness ==
    /\ InWorkflow
    /\ Len(results) = 3
    /\ \E a, b, c \in 1..3 :
           /\ trace[a].agent = None
           /\ ~results[a].success
           /\ trace[b].agent = ETL
           /\ results[b].success
           /\ trace[c].agent = PROFILING
           /\ ~results[c].success

=============================================================================
